---- MODULE Spec2Model ----
(***************************************************************************)
(* FileConverter: the upload / validate / dispatch / convert pipeline of   *)
(* app.py, with the classifier and validators of utils/ and the four       *)
(* converters of converters/.                                              *)
(*                                                                         *)
(* Strings are sequences of one-character strings, so that pathlib's       *)
(* suffix/stem, str.lower and str.split are computed, not assumed.  Byte   *)
(* strings are sequences of integers 0..255.                               *)
(***************************************************************************)
EXTENDS Integers, Sequences, FiniteSets, TLC

(***************************************************************************)
(* Bounds of the model.                                                    *)
(***************************************************************************)
\* files the uploader may hand to one script run (the program's cap is 10)
MaxUpload == 11
\* Convert buttons taken as pressed in one script run
MaxClicks == 2
\* entries st.session_state.converted_files may hold when a run starts jobs
MaxConverted == 2
\* length of the free part of a file name in the classifier specification
MaxStemLen == 2
\* length of a document's content in the single-conversion specification
MaxDataLen == 2
\* lines of the longest text rendered to PDF (a page holds 50 lines)
MaxTextLines == 51
\* words of the longest paragraph rendered to PDF
MaxWords == 6
\* pixels of an image
MaxPixels == 1
\* frames of an image
MaxFrames == 2

(***************************************************************************)
(* str helpers                                                             *)
(***************************************************************************)
\* str.lower on one character
LowerChar(c) ==
    CASE c = "A" -> "a" [] c = "B" -> "b" [] c = "C" -> "c" [] c = "D" -> "d"
      [] c = "E" -> "e" [] c = "F" -> "f" [] c = "G" -> "g" [] c = "H" -> "h"
      [] c = "I" -> "i" [] c = "J" -> "j" [] c = "K" -> "k" [] c = "L" -> "l"
      [] c = "M" -> "m" [] c = "N" -> "n" [] c = "O" -> "o" [] c = "P" -> "p"
      [] c = "Q" -> "q" [] c = "R" -> "r" [] c = "S" -> "s" [] c = "T" -> "t"
      [] c = "U" -> "u" [] c = "V" -> "v" [] c = "W" -> "w" [] c = "X" -> "x"
      [] c = "Y" -> "y" [] c = "Z" -> "z" [] OTHER -> c

\* str.upper on one character
UpperChar(c) ==
    CASE c = "a" -> "A" [] c = "b" -> "B" [] c = "c" -> "C" [] c = "d" -> "D"
      [] c = "e" -> "E" [] c = "f" -> "F" [] c = "g" -> "G" [] c = "h" -> "H"
      [] c = "i" -> "I" [] c = "j" -> "J" [] c = "k" -> "K" [] c = "l" -> "L"
      [] c = "m" -> "M" [] c = "n" -> "N" [] c = "o" -> "O" [] c = "p" -> "P"
      [] c = "q" -> "Q" [] c = "r" -> "R" [] c = "s" -> "S" [] c = "t" -> "T"
      [] c = "u" -> "U" [] c = "v" -> "V" [] c = "w" -> "W" [] c = "x" -> "X"
      [] c = "y" -> "Y" [] c = "z" -> "Z" [] OTHER -> c

\* str.lower
Lower(s) == [k \in 1..Len(s) |-> LowerChar(s[k])]

\* str.upper
Upper(s) == [k \in 1..Len(s) |-> UpperChar(s[k])]

\* str.rfind('.') as a 1-based index, 0 when there is no '.'
RFindDot(s) ==
    LET hits == {k \in 1..Len(s) : s[k] = "."}
    IN  IF hits = {} THEN 0 ELSE CHOOSE k \in hits : \A j \in hits : j <= k

\* s[from:] with a 1-based first index
From(s, first) == SubSeq(s, first, Len(s))

\* pathlib.PurePath.suffix of a name without path separators: the text from
\* the last '.', unless that '.' is the first or the last character
PathSuffix(name) ==
    LET d == RFindDot(name)
    IN  IF 1 < d /\ d < Len(name) THEN From(name, d) ELSE <<>>

\* pathlib.PurePath.stem of a name without path separators
PathStem(name) ==
    LET d == RFindDot(name)
    IN  IF 1 < d /\ d < Len(name) THEN SubSeq(name, 1, d - 1) ELSE name

\* name.split('.')[-1]: the text after the last '.', the whole name without one
SplitLast(name) == From(name, RFindDot(name) + 1)

\* s[1:]
DropFirst(s) == IF s = <<>> THEN <<>> ELSE Tail(s)

\* whether pattern occurs in s (the `in` operator on str)
Contains(s, pattern) ==
    \E k \in 1..(Len(s) - Len(pattern) + 1) :
        SubSeq(s, k, k + Len(pattern) - 1) = pattern

(***************************************************************************)
(* File extensions and format names as character sequences.                *)
(***************************************************************************)
pdf == <<"p", "d", "f">>
doc == <<"d", "o", "c">>
docx == <<"d", "o", "c", "x">>
txt == <<"t", "x", "t">>
rtf == <<"r", "t", "f">>
odt == <<"o", "d", "t">>
jpg == <<"j", "p", "g">>
jpeg == <<"j", "p", "e", "g">>
png == <<"p", "n", "g">>
gif == <<"g", "i", "f">>
webp == <<"w", "e", "b", "p">>
bmp == <<"b", "m", "p">>
tiff == <<"t", "i", "f", "f">>
svg == <<"s", "v", "g">>
mp3 == <<"m", "p", "3">>
wav == <<"w", "a", "v">>
m4a == <<"m", "4", "a">>
ogg == <<"o", "g", "g">>
flac == <<"f", "l", "a", "c">>
aac == <<"a", "a", "c">>
wma == <<"w", "m", "a">>
mp4 == <<"m", "p", "4">>
avi == <<"a", "v", "i">>
mov == <<"m", "o", "v">>
mkv == <<"m", "k", "v">>
webm == <<"w", "e", "b", "m">>
flv == <<"f", "l", "v">>
wmv == <<"w", "m", "v">>
threegp == <<"3", "g", "p">>
exe == <<"e", "x", "e">>

(***************************************************************************)
(* utils/file_utils.py                                                     *)
(***************************************************************************)
document_formats == {pdf, doc, docx, txt, rtf, odt}
image_formats == {jpg, jpeg, png, gif, webp, bmp, tiff, svg}
audio_formats == {mp3, wav, m4a, ogg, flac, aac, wma}
video_formats == {mp4, avi, mov, mkv, webm, flv, wmv, threegp}

\* mutant of FileExt: the extension taken as filename.split('.')[-1].lower()
FileExt_by_split(filename) == Lower(SplitLast(filename))

\* ext = Path(filename).suffix.lower()[1:]
FileExt(filename) == DropFirst(Lower(PathSuffix(filename)))

\* get_file_type(filename)
get_file_type(filename) ==
    LET ext == FileExt(filename)
    IN  IF ext \in document_formats THEN "document"
        ELSE IF ext \in image_formats THEN "image"
        ELSE IF ext \in audio_formats THEN "audio"
        ELSE IF ext \in video_formats THEN "video"
        ELSE "unknown"

\* mutant of get_supported_formats: audio also offers aac
get_supported_formats_aac(file_type) ==
    CASE file_type = "document" -> <<pdf, docx, txt>>
      [] file_type = "image"    -> <<jpg, png, gif, webp, bmp>>
      [] file_type = "audio"    -> <<mp3, wav, m4a, aac>>
      [] file_type = "video"    -> <<mp4, avi, mov>>
      [] OTHER                  -> <<>>

\* get_supported_formats(file_type): format_mapping.get(file_type, [])
get_supported_formats(file_type) ==
    CASE file_type = "document" -> <<pdf, docx, txt>>
      [] file_type = "image"    -> <<jpg, png, gif, webp, bmp>>
      [] file_type = "audio"    -> <<mp3, wav, m4a>>
      [] file_type = "video"    -> <<mp4, avi, mov>>
      [] OTHER                  -> <<>>

(***************************************************************************)
(* utils/validation.py                                                     *)
(***************************************************************************)
MiB == 1024 * 1024

\* size_limits.get(file_type, 100 * 1024 * 1024)
size_limit(file_type) ==
    CASE file_type = "document" -> 100 * MiB
      [] file_type = "image"    -> 100 * MiB
      [] file_type = "audio"    -> 100 * MiB
      [] file_type = "video"    -> 50 * MiB
      [] OTHER                  -> 100 * MiB

\* mutant of validate_file_size: >= in place of >
validate_file_size_ge(file_size_bytes, file_type) ==
    IF file_size_bytes >= size_limit(file_type)
    THEN [ok |-> FALSE, msg |-> "File size exceeds limit"]
    ELSE [ok |-> TRUE, msg |-> "File size is valid"]

\* validate_file_size(file_size_bytes, file_type) -> (ok, message)
validate_file_size(file_size_bytes, file_type) ==
    IF file_size_bytes > size_limit(file_type)
    THEN [ok |-> FALSE, msg |-> "File size exceeds limit"]
    ELSE [ok |-> TRUE, msg |-> "File size is valid"]

\* validate_file_type(filename) -> (ok, message)
validate_file_type(filename) ==
    IF get_file_type(filename) = "unknown"
    THEN [ok |-> FALSE, msg |-> "Unsupported file type"]
    ELSE [ok |-> TRUE, msg |-> "File type is supported"]

max_batch_size == 10

\* validate_batch_size(file_count) -> (ok, message)
validate_batch_size(file_count) ==
    IF file_count > max_batch_size
    THEN [ok |-> FALSE, msg |-> "Batch size exceeds maximum allowed"]
    ELSE [ok |-> TRUE, msg |-> "Batch size is valid"]

max_filename_length == 255

dangerous_patterns ==
    { <<".", ".", "/">>, <<".", "\\">>,
      <<"<", "s", "c", "r", "i", "p", "t">>,
      <<"<", "?", "p", "h", "p">>, <<"#", "!", "/">> }

reserved_names ==
    { <<"C", "O", "N">>, <<"P", "R", "N">>, <<"A", "U", "X">>, <<"N", "U", "L">> }
    \cup { <<"C", "O", "M", d>> : d \in {"1", "2", "3", "4", "5", "6", "7", "8", "9"} }
    \cup { <<"L", "P", "T", d>> : d \in {"1", "2", "3", "4", "5", "6", "7", "8", "9"} }

\* str.strip() == "": every character is whitespace
IsBlank(s) == \A k \in 1..Len(s) : s[k] \in {" ", "\t", "\n", "\r"}

\* pathlib.PurePosixPath.name: the last component between '/' characters,
\* where empty components and '.' components do not count ('' for '/', '.'
\* and '')
PathName(s) ==
    LET ComponentEnd(a) ==
            LET seps == { k \in a..Len(s) : s[k] = "/" }
            IN  IF seps = {} THEN Len(s)
                ELSE (CHOOSE k \in seps : \A j \in seps : k <= j) - 1
        starts == { a \in 1..Len(s) :
                      /\ s[a] # "/"
                      /\ a = 1 \/ s[a - 1] = "/"
                      /\ SubSeq(s, a, ComponentEnd(a)) # <<".">> }
    IN  IF starts = {} THEN <<>>
        ELSE LET a == CHOOSE k \in starts : \A j \in starts : j <= k
             IN  SubSeq(s, a, ComponentEnd(a))

\* mutant of validate_filename: a name of 255 characters is too long
validate_filename_ge(filename) ==
    IF filename = <<>> \/ IsBlank(filename)
    THEN [ok |-> FALSE, msg |-> "Filename cannot be empty"]
    ELSE IF Len(filename) >= max_filename_length
    THEN [ok |-> FALSE, msg |-> "Filename is too long"]
    ELSE IF \E p \in dangerous_patterns : Contains(Lower(filename), p)
    THEN [ok |-> FALSE, msg |-> "Filename contains potentially dangerous pattern"]
    ELSE IF Upper(PathStem(PathName(filename))) \in reserved_names
    THEN [ok |-> FALSE, msg |-> "Filename uses reserved name"]
    ELSE [ok |-> TRUE, msg |-> "Filename is valid"]

\* validate_filename(filename) -> (ok, message)
validate_filename(filename) ==
    IF filename = <<>> \/ IsBlank(filename)
    THEN [ok |-> FALSE, msg |-> "Filename cannot be empty"]
    ELSE IF Len(filename) > max_filename_length
    THEN [ok |-> FALSE, msg |-> "Filename is too long"]
    ELSE IF \E p \in dangerous_patterns : Contains(Lower(filename), p)
    THEN [ok |-> FALSE, msg |-> "Filename contains potentially dangerous pattern"]
    ELSE IF Upper(PathStem(PathName(filename))) \in reserved_names
    THEN [ok |-> FALSE, msg |-> "Filename uses reserved name"]
    ELSE [ok |-> TRUE, msg |-> "Filename is valid"]

(***************************************************************************)
(* Values shared by the converters.                                        *)
(*                                                                         *)
(* A converter returns (data, filename, mime_type) or raises; Return and   *)
(* Raise build the two outcomes.  passthrough records that the data is the *)
(* input file read back (`return f.read(), ...`).                          *)
(*                                                                         *)
(* What the third-party libraries and ffmpeg do is not in this repository: *)
(* an oracle record o gives their behaviour for one call.                  *)
(*   o.lib_ok      the renderer / image codec works (no exception)         *)
(*   o.extract_ok  PyPDF2 / python-docx parses the input                   *)
(*   o.parts       the page texts or paragraph texts it finds              *)
(*   o.primary_ok  pydub's extension-specific loader works                 *)
(*   o.generic_ok  pydub's auto-detecting loader works                     *)
(*   o.export_ok   pydub's export works, per attempt (<<first, second>>)   *)
(*   o.version     what `ffmpeg -version` does:                            *)
(*                 "ok" | "nonzero" | "timeout" | "notfound"               *)
(*   o.ffmpeg      what the conversion subprocess does:                    *)
(*                 "ok" | "nonzero" | "timeout"                            *)
(*   o.stderr      what the conversion subprocess writes to stderr         *)
(*   o.write_ok    writing the uploaded bytes to the temporary file works  *)
(*                                                                         *)
(* err is the text of the exception up to its first interpolated value,    *)
(* err_args the interpolated values.  log is the sequence of operations on *)
(* temporary files, loaders, encoders and subprocesses the call performed. *)
(***************************************************************************)
Return(data, filename, mime_type, passthrough) ==
    [ok |-> TRUE, data |-> data, filename |-> filename, mime_type |-> mime_type,
     err |-> "", passthrough |-> passthrough, err_args |-> <<>>, log |-> <<>>]

RaiseWith(message, args) ==
    [ok |-> FALSE, data |-> <<>>, filename |-> <<>>, mime_type |-> "",
     err |-> message, passthrough |-> FALSE, err_args |-> args, log |-> <<>>]

Raise(message) == RaiseWith(message, <<>>)

\* one operation of a call: op on the file (or with the program) named
Ev(op, file) == [op |-> op, file |-> file]

\* the operations performed before the outcome r was computed
Before(events, r) == [r EXCEPT !.log = events \o @]

\* the operations of a finally block, performed after r was computed
Finally(r, events) == [r EXCEPT !.log = @ \o events]

\* str(e) of the exception r: the text and the values interpolated into it
StrOf(r) == <<r.err>> \o r.err_args

\* the bytes an encoder writes, abstracted to the format's leading bytes
\* followed by the payload the model tracks
Encoded(magic, payload) == magic \o payload

PdfMagic == <<37, 80, 68, 70>>
ZipMagic == <<80, 75>>

(***************************************************************************)
(* Text                                                                    *)
(*                                                                         *)
(* A str is a sequence of code points.  The byte alphabet of the model is  *)
(* ASCII plus 0xFF, a byte that is invalid anywhere in UTF-8.              *)
(***************************************************************************)
\* bytes.decode('utf-8', errors='ignore') on that alphabet: invalid bytes
\* are dropped
DecodeIgnore(bytes) == SelectSeq(bytes, LAMBDA b : b < 128)

\* universal newlines of open(path, 'r'): "\r\n" and "\r" are read as "\n"
RECURSIVE TranslateNewlines(_)
TranslateNewlines(s) ==
    IF s = <<>> THEN <<>>
    ELSE IF s[1] = 13
         THEN IF Len(s) >= 2 /\ s[2] = 10
              THEN <<10>> \o TranslateNewlines(From(s, 3))
              ELSE <<10>> \o TranslateNewlines(Tail(s))
         ELSE <<s[1]>> \o TranslateNewlines(Tail(s))

\* open(input_path, 'r', encoding='utf-8', errors='ignore').read()
ReadText(bytes) == TranslateNewlines(DecodeIgnore(bytes))

\* str.encode('utf-8') of code points below 128
EncodeUtf8(text) == text

\* mutant of JoinWithNewlineAfterEach: "\n".join(parts)
RECURSIVE JoinWithNewlineBetween(_)
JoinWithNewlineBetween(parts) ==
    IF parts = <<>> THEN <<>>
    ELSE IF Len(parts) = 1 THEN parts[1]
    ELSE parts[1] \o <<10>> \o JoinWithNewlineBetween(Tail(parts))

\* text = ""; for part in parts: text += part + "\n"
RECURSIVE JoinWithNewlineAfterEach(_)
JoinWithNewlineAfterEach(parts) ==
    IF parts = <<>> THEN <<>>
    ELSE parts[1] \o <<10>> \o JoinWithNewlineAfterEach(Tail(parts))

\* "Unable to extract text from PDF"
PdfPlaceholder ==
    <<85, 110, 97, 98, 108, 101, 32, 116, 111, 32, 101, 120, 116, 114, 97,
      99, 116, 32, 116, 101, 120, 116, 32, 102, 114, 111, 109, 32, 80, 68,
      70>>
\* "Unable to extract text from DOCX"
DocxPlaceholder ==
    <<85, 110, 97, 98, 108, 101, 32, 116, 111, 32, 101, 120, 116, 114, 97,
      99, 116, 32, 116, 101, 120, 116, 32, 102, 114, 111, 109, 32, 68, 79,
      67, 88>>

(***************************************************************************)
(* converters/document_converter.py                                        *)
(***************************************************************************)
Doc_supported_inputs == {pdf, doc, docx, txt, rtf}
Doc_supported_outputs == {pdf, docx, txt}

DocxMime == "application/vnd.openxmlformats-officedocument.wordprocessingml.document"

\* DocumentConverter._get_output_filename
Doc_get_output_filename(original_filename, output_format) ==
    PathStem(original_filename) \o <<".">> \o output_format

\* mutant of Doc_extract_text_from_pdf: a failed extraction yields no text
Doc_extract_text_from_pdf_empty(o) ==
    IF o.extract_ok THEN JoinWithNewlineAfterEach(o.parts) ELSE <<>>

\* DocumentConverter._extract_text_from_pdf
Doc_extract_text_from_pdf(o) ==
    IF o.extract_ok THEN JoinWithNewlineAfterEach(o.parts) ELSE PdfPlaceholder

\* DocumentConverter._extract_text_from_docx
Doc_extract_text_from_docx(o) ==
    IF o.extract_ok THEN JoinWithNewlineAfterEach(o.parts) ELSE DocxPlaceholder

\* DocumentConverter._txt_to_pdf
Doc_txt_to_pdf(text_content, output_filename, o) ==
    IF o.lib_ok
    THEN Return(Encoded(PdfMagic, EncodeUtf8(text_content)), output_filename,
                "application/pdf", FALSE)
    ELSE Raise("Failed to convert to PDF")

\* DocumentConverter._txt_to_docx
Doc_txt_to_docx(text_content, output_filename, o) ==
    IF o.lib_ok
    THEN Return(Encoded(ZipMagic, EncodeUtf8(text_content)), output_filename,
                DocxMime, FALSE)
    ELSE Raise("Failed to convert to DOCX")

\* DocumentConverter._convert_from_txt
Doc_convert_from_txt(data, output_format, output_filename, o) ==
    LET content == ReadText(data)
    IN  IF output_format = txt
        THEN Return(EncodeUtf8(content), output_filename, "text/plain", FALSE)
        ELSE IF output_format = pdf
        THEN Doc_txt_to_pdf(content, output_filename, o)
        ELSE IF output_format = docx
        THEN Doc_txt_to_docx(content, output_filename, o)
        ELSE Raise("Unsupported output format")

\* DocumentConverter._convert_from_pdf
Doc_convert_from_pdf(data, output_format, output_filename, o) ==
    IF output_format = pdf
    THEN Return(data, output_filename, "application/pdf", TRUE)
    ELSE LET text_content == Doc_extract_text_from_pdf(o)
         IN  IF output_format = txt
             THEN Return(EncodeUtf8(text_content), output_filename, "text/plain", FALSE)
             ELSE IF output_format = docx
             THEN Doc_txt_to_docx(text_content, output_filename, o)
             ELSE Raise("Unsupported output format")

\* DocumentConverter._convert_from_docx
Doc_convert_from_docx(data, output_format, output_filename, o) ==
    IF output_format = docx
    THEN Return(data, output_filename, DocxMime, TRUE)
    ELSE LET text_content == Doc_extract_text_from_docx(o)
         IN  IF output_format = txt
             THEN Return(EncodeUtf8(text_content), output_filename, "text/plain", FALSE)
             ELSE IF output_format = pdf
             THEN Doc_txt_to_pdf(text_content, output_filename, o)
             ELSE Raise("Unsupported output format")

\* DocumentConverter.convert(input_path, output_format, original_filename);
\* data is the content of the file at input_path
Doc_convert(input_path, data, output_format, original_filename, o) ==
    LET input_ext == FileExt(input_path)
        output_filename == Doc_get_output_filename(original_filename, output_format)
    IN  IF input_ext = txt
        THEN Doc_convert_from_txt(data, output_format, output_filename, o)
        ELSE IF input_ext = pdf
        THEN Doc_convert_from_pdf(data, output_format, output_filename, o)
        ELSE IF input_ext \in {doc, docx}
        THEN Doc_convert_from_docx(data, output_format, output_filename, o)
        ELSE Raise("Unsupported input format")

(***************************************************************************)
(* converters/image_converter.py                                           *)
(***************************************************************************)
Image_supported_formats == {jpg, jpeg, png, gif, webp, bmp}

Image_mime_types(format) ==
    CASE format \in {jpg, jpeg} -> "image/jpeg"
      [] format = png           -> "image/png"
      [] format = gif           -> "image/gif"
      [] format = webp          -> "image/webp"
      [] format = bmp           -> "image/bmp"

\* the first bytes of a file PIL saves in the given format
ImageMagic(format) ==
    CASE format = jpg  -> <<255, 216, 255>>
      [] format = png  -> <<137, 80, 78, 71>>
      [] format = gif  -> <<71, 73, 70, 56>>
      [] format = webp -> <<82, 73, 70, 70>>
      [] format = bmp  -> <<66, 77>>

\* ImageConverter._get_output_filename
Image_get_output_filename(original_filename, output_format) ==
    PathStem(original_filename) \o <<".">> \o Lower(output_format)

\* ImageConverter.convert: Image.open, then the branch on output_format.lower();
\* every exception is re-raised as "Failed to convert image"
Image_convert(input_path, data, output_format, original_filename, o) ==
    LET output_filename == Image_get_output_filename(original_filename, output_format)
        target == Lower(output_format)
    IN  IF ~o.lib_ok THEN Raise("Failed to convert image")
        ELSE IF target \in {jpg, jpeg}
        THEN Return(Encoded(ImageMagic(jpg), <<>>), output_filename, Image_mime_types(jpg), FALSE)
        ELSE IF target \in {png, gif, webp, bmp}
        THEN Return(Encoded(ImageMagic(target), <<>>), output_filename,
                    Image_mime_types(target), FALSE)
        ELSE Raise("Failed to convert image")

(***************************************************************************)
(* converters/audio_converter.py                                           *)
(***************************************************************************)
Audio_supported_formats == {mp3, wav, m4a, ogg, flac}

\* self.mime_types.get(output_format, 'audio/mpeg')
Audio_mime_types(format) ==
    CASE format = mp3  -> "audio/mpeg"
      [] format = wav  -> "audio/wav"
      [] format = m4a  -> "audio/mp4"
      [] format = ogg  -> "audio/ogg"
      [] format = flac -> "audio/flac"
      [] OTHER         -> "audio/mpeg"

\* the first bytes of a file pydub exports in the given format
AudioMagic(format) ==
    CASE format = mp3  -> <<73, 68, 51>>
      [] format = wav  -> <<82, 73, 70, 70>>
      [] format = m4a  -> <<0, 0, 0, 32>>
      [] format = ogg  -> <<79, 103, 103, 83>>
      [] format = flac -> <<102, 76, 97, 67>>

\* AudioConverter._get_output_filename
Audio_get_output_filename(original_filename, output_format) ==
    PathStem(original_filename) \o <<".">> \o Lower(output_format)

\* the temporary file the n-th _export_audio of one convert call creates
AudioTmp(attempt) == IF attempt = 1 THEN "audio_output_1" ELSE "audio_output_2"

\* AudioConverter._export_audio, attempt 1 or 2 of the same convert call:
\* the temporary file is created before the try and removed in its finally
Audio_export_audio(output_format, output_filename, o, attempt) ==
    LET tmp_output_path == AudioTmp(attempt)
        create == Ev("create", tmp_output_path)
        export == Ev("export", tmp_output_path)
        unlink == Ev("unlink", tmp_output_path)
    IN  IF output_format \notin Audio_supported_formats
        THEN Finally(Before(<<create>>, Raise("Unsupported output format")),
                     <<unlink>>)
        ELSE IF ~o.export_ok[attempt]
        THEN Finally(Before(<<create, export>>, Raise("export failed")), <<unlink>>)
        ELSE Finally(Before(<<create, export, Ev("read", tmp_output_path)>>,
                            Return(Encoded(AudioMagic(output_format), <<>>),
                                   output_filename,
                                   Audio_mime_types(output_format), FALSE)),
                     <<unlink>>)

\* the loader the try block of AudioConverter.convert picks for input_ext:
\* a format-specific one for the five known extensions, else from_file
Audio_primary_loads(input_ext, o) ==
    IF input_ext \in {mp3, wav, m4a, ogg, flac} THEN o.primary_ok ELSE o.generic_ok

\* AudioConverter.convert: load and export; on any exception load with the
\* generic loader and export again; if that raises too, raise
Audio_convert(input_path, data, output_format, original_filename, o) ==
    LET output_filename == Audio_get_output_filename(original_filename, output_format)
        input_ext == FileExt(input_path)
        load == IF input_ext \in {mp3, wav, m4a, ogg, flac}
                THEN Ev("load_specific", "input")
                ELSE Ev("from_file", "input")
        first == IF Audio_primary_loads(input_ext, o)
                 THEN Before(<<load>>,
                             Audio_export_audio(output_format, output_filename, o, 1))
                 ELSE Before(<<load>>, Raise("load failed"))
        second == IF o.generic_ok
                  THEN Before(<<Ev("from_file", "input")>>,
                              Audio_export_audio(output_format, output_filename, o,
                                                 IF Audio_primary_loads(input_ext, o)
                                                 THEN 2 ELSE 1))
                  ELSE Before(<<Ev("from_file", "input")>>, Raise("load failed"))
    IN  IF first.ok THEN first
        ELSE IF second.ok THEN Before(first.log, second)
        ELSE Before(first.log \o second.log,
                    RaiseWith("Failed to convert audio. Fallback also failed",
                              <<first.err, second.err>>))

(***************************************************************************)
(* converters/video_converter.py                                           *)
(***************************************************************************)
Video_supported_formats == {mp4, avi, mov, mkv, webm}

\* self.mime_types.get(output_format, 'video/mp4')
Video_mime_types(format) ==
    CASE format = mp4  -> "video/mp4"
      [] format = avi  -> "video/x-msvideo"
      [] format = mov  -> "video/quicktime"
      [] format = mkv  -> "video/x-matroska"
      [] format = webm -> "video/webm"
      [] OTHER         -> "video/mp4"

\* the first bytes of the file ffmpeg writes
VideoMagic == <<0, 0, 0, 24>>

\* mutant of Video_get_output_filename: the format is not lower-cased
Video_get_output_filename_as_given(original_filename, output_format) ==
    PathStem(original_filename) \o <<".">> \o output_format

\* VideoConverter._get_output_filename
Video_get_output_filename(original_filename, output_format) ==
    PathStem(original_filename) \o <<".">> \o Lower(output_format)

\* mutant of Video_check_ffmpeg: the exit code of `ffmpeg -version` is ignored
Video_check_ffmpeg_found(o) == o.version \notin {"timeout", "notfound"}

\* VideoConverter._check_ffmpeg: True iff `ffmpeg -version` ran and exited 0
Video_check_ffmpeg(o) == o.version = "ok"

\* the exception texts of VideoConverter.convert that contain "FFmpeg"
\* (a TimeoutExpired reads "Command '['ffmpeg', ...]' timed out after 300
\* seconds": lower case, so it does not)
MentionsFFmpeg(message) ==
    message \in {"FFmpeg is required for video conversion but not available",
                 "FFmpeg conversion failed"}

\* the handler `except Exception as e` of VideoConverter.convert
Video_reraise(e) ==
    IF MentionsFFmpeg(e.err)
    THEN Before(e.log, Raise("Video conversion requires FFmpeg installation"))
    ELSE Before(e.log, RaiseWith("Failed to convert video", StrOf(e)))

\* VideoConverter.convert: the availability check, the temporary output
\* file, the conversion subprocess, the read; the finally removes the
\* temporary output file
Video_convert(input_path, data, output_format, original_filename, o) ==
    LET output_filename == Video_get_output_filename(original_filename, output_format)
        check == Ev("check_ffmpeg", "ffmpeg")
        create == Ev("create", "video_output")
        run == Ev("run_ffmpeg", "ffmpeg")
        unlink == Ev("unlink", "video_output")
    IN  IF ~Video_check_ffmpeg(o)
        THEN Video_reraise(Before(<<check>>,
                 Raise("FFmpeg is required for video conversion but not available")))
        ELSE IF o.ffmpeg = "timeout"
        THEN Video_reraise(Finally(Before(<<check, create, run>>,
                 Raise("Command timed out after 300 seconds")), <<unlink>>))
        ELSE IF o.ffmpeg = "nonzero"
        THEN Video_reraise(Finally(Before(<<check, create, run>>,
                 RaiseWith("FFmpeg conversion failed", <<o.stderr>>)), <<unlink>>))
        ELSE Finally(Before(<<check, create, run, Ev("read", "video_output")>>,
                            Return(Encoded(VideoMagic, <<>>), output_filename,
                                   Video_mime_types(output_format), FALSE)),
                     <<unlink>>)

(***************************************************************************)
(* app.py: convert_file                                                    *)
(***************************************************************************)
\* the random part of a NamedTemporaryFile path (letters, digits, '_')
TmpBase == <<"t", "m", "p", "k", "7", "_">>

\* tempfile.NamedTemporaryFile(suffix=f".{uploaded_file.name.split('.')[-1]}")
TmpPath(name) == TmpBase \o <<".">> \o SplitLast(name)

\* convert_file(uploaded_file, output_format, file_type)
\* the temporary file is created and written before the try; the finally
\* of the try removes it
convert_file(uploaded_file, output_format, file_type, o) ==
    LET tmp_file_path == TmpPath(uploaded_file.name)
        data == uploaded_file.data
        name == uploaded_file.name
        create == Ev("create", "input")
        write == Ev("write", "input")
        result == IF file_type = "document"
                  THEN Doc_convert(tmp_file_path, data, output_format, name, o)
                  ELSE IF file_type = "image"
                  THEN Image_convert(tmp_file_path, data, output_format, name, o)
                  ELSE IF file_type = "audio"
                  THEN Audio_convert(tmp_file_path, data, output_format, name, o)
                  ELSE IF file_type = "video"
                  THEN Video_convert(tmp_file_path, data, output_format, name, o)
                  ELSE Raise("Unsupported file type")
    IN  IF ~o.write_ok
        THEN Before(<<create, write>>, Raise("No space left on device"))
        ELSE Finally(Before(<<create, write>>, result), <<Ev("unlink", "input")>>)

\* the converter convert_file hands the file to, "none" when it raises
\* before choosing one
Strategy(file_type) ==
    IF file_type \in {"document", "image", "audio", "video"} THEN file_type ELSE "none"

(***************************************************************************)
(* The behaviours of the libraries and of ffmpeg, per converter.           *)
(***************************************************************************)
DefaultOracle ==
    [lib_ok |-> TRUE, extract_ok |-> TRUE, parts |-> <<>>, primary_ok |-> TRUE,
     generic_ok |-> TRUE, export_ok |-> <<TRUE, TRUE>>, version |-> "ok",
     ffmpeg |-> "ok", stderr |-> "Invalid data found when processing input",
     write_ok |-> TRUE]

\* the disk is full when the uploaded bytes are written
WriteFails == [DefaultOracle EXCEPT !.write_ok = FALSE]

\* page or paragraph texts a parsed document may hold: none, one "A",
\* "A" then "B", an empty one then "B"
DocParts == { <<>>, << <<65>> >>, << <<65>>, <<66>> >>, << <<>>, <<66>> >> }

Oracles(file_type) ==
    {WriteFails} \cup
    CASE file_type = "document" ->
           { [DefaultOracle EXCEPT !.lib_ok = l, !.extract_ok = e, !.parts = p] :
               l \in BOOLEAN, e \in BOOLEAN, p \in DocParts }
      [] file_type = "image" ->
           { [DefaultOracle EXCEPT !.lib_ok = l] : l \in BOOLEAN }
      [] file_type = "audio" ->
           { [DefaultOracle EXCEPT !.primary_ok = a, !.generic_ok = g, !.export_ok = x] :
               a \in BOOLEAN, g \in BOOLEAN, x \in [1..2 -> BOOLEAN] }
      [] file_type = "video" ->
           { [DefaultOracle EXCEPT !.version = v] :
               v \in {"ok", "nonzero", "timeout", "notfound"} }
           \cup { [DefaultOracle EXCEPT !.ffmpeg = f] :
                    f \in {"ok", "nonzero", "timeout"} }
      [] OTHER -> {DefaultOracle}

(***************************************************************************)
(* State                                                                   *)
(*                                                                         *)
(* uploaded_files   the value of st.file_uploader: records                 *)
(*                  [name, size, data]; data is what read() returns (for   *)
(*                  the files of many MiB the model keeps its first byte)  *)
(* converted_files  st.session_state.converted_files                       *)
(* conversion_jobs  the list main() builds in one script run               *)
(* i                the loop index of process_conversions (1-based)        *)
(* pc               "idle": the script has run to its end;                 *)
(*                  "converting": inside the loop of process_conversions;  *)
(*                  "finished": after the loop, before st.rerun()          *)
(* errors           the st.error messages of the current script run        *)
(* validated        the names handed to validate_file_size and             *)
(*                  validate_file_type in the current script run           *)
(* calls            the convert_file invocations of the current run        *)
(* outcomes         what process_conversions reported per job in the       *)
(*                  current run: an artifact appended to converted_files   *)
(*                  ("Success", with its file name and bytes) or an        *)
(*                  st.error ("Failure")                                   *)
(* arg, result      the call and its value in the specifications that      *)
(*                  exercise one function                                  *)
(***************************************************************************)
VARIABLES uploaded_files, converted_files, conversion_jobs, i, pc, errors,
          validated, calls, outcomes, arg, result

vars == <<uploaded_files, converted_files, conversion_jobs, i, pc, errors,
          validated, calls, outcomes, arg, result>>

NoArg == [fn |-> "none"]
NoResult == [fn |-> "none"]

(***************************************************************************)
(* The files a user may upload, in the order the uploader lists them.      *)
(***************************************************************************)
File(name, size, data) == [name |-> name, size |-> size, data |-> data]

Catalogue ==
    << File(<<"a", ".", "t", "x", "t">>, 1, <<65>>),
       File(<<"b", ".", "r", "t", "f">>, 1, <<123>>),
       File(<<"e", ".", "t", "x", "t">>, 0, <<>>),
       File(<<"C", "O", "N", ".", "p", "n", "g">>, 50 * MiB + 1, <<137>>),
       File(<<"v", ".", "m", "p", "4">>, 50 * MiB, <<0>>),
       File(<<"w", ".", "M", "P", "4">>, 50 * MiB + 1, <<0>>),
       File(<<"x", ".", "e", "x", "e">>, 1, <<77>>),
       File(<<"b", "i", "g", ".", "p", "d", "f">>, 100 * MiB + 1, <<37>>),
       File(<<"s", ".", "m", "p", "3">>, 100 * MiB, <<73>>),
       File(<<"y", ".", "b", "i", "n">>, 100 * MiB + 1, <<0>>) >>

\* the batch sizes the model uploads: one file, and the sizes up to MaxUpload
\* that lie around the program's cap
UploadSizes == {1} \cup ((MaxUpload - 2)..MaxUpload)

\* a batch of n files: the catalogue from its first entry, repeated
Batch(n) == [k \in 1..n |-> Catalogue[((k - 1) % Len(Catalogue)) + 1]]

\* the elements of a finite set of integers in increasing order
RECURSIVE Ascending(_)
Ascending(S) ==
    IF S = {} THEN <<>>
    ELSE LET m == CHOOSE x \in S : \A y \in S : x <= y
         IN  <<m>> \o Ascending(S \ {m})

(***************************************************************************)
(* app.py: main                                                            *)
(***************************************************************************)
main_max_files == 10

\* the body of the loop over uploaded_files up to the Convert button: the
\* two validators are called, then the first failing one is reported and the
\* file skipped; a file type with no output formats is skipped too
FileRow(uploaded_file) ==
    LET file_type == get_file_type(uploaded_file.name)
        size_check == validate_file_size(uploaded_file.size, file_type)
        type_check == validate_file_type(uploaded_file.name)
        supported_formats == get_supported_formats(file_type)
    IN  IF ~size_check.ok
        THEN [button |-> FALSE, error |-> size_check.msg, file_type |-> file_type,
              supported_formats |-> <<>>]
        ELSE IF ~type_check.ok
        THEN [button |-> FALSE, error |-> type_check.msg, file_type |-> file_type,
              supported_formats |-> <<>>]
        ELSE IF supported_formats = <<>>
        THEN [button |-> FALSE, error |-> "Unsupported file type",
              file_type |-> file_type, supported_formats |-> <<>>]
        ELSE [button |-> TRUE, error |-> "", file_type |-> file_type,
              supported_formats |-> supported_formats]

\* FileRow tabulated over the catalogue (the files every batch is made of)
Rows == [f \in {Catalogue[k] : k \in 1..Len(Catalogue)} |-> FileRow(f)]

Row(uploaded_file) == Rows[uploaded_file]

\* mutant of BatchAccepted: the cap is compared off by one
BatchAccepted_eleven(files) == files # <<>> /\ ~(Len(files) > main_max_files + 1)

\* whether main() gets past the batch check to the per-file loop
BatchAccepted(files) == files # <<>> /\ ~(Len(files) > main_max_files)

\* the indices of the files whose Convert button main() renders
Buttons(files) ==
    IF BatchAccepted(files)
    THEN {k \in 1..Len(files) : Row(files[k]).button}
    ELSE {}

\* the st.error calls of main() before process_conversions
MainErrors(files) ==
    IF files = <<>> THEN <<>>
    ELSE IF Len(files) > main_max_files
    THEN << [name |-> <<>>, msg |-> "Please upload maximum 10 files at once"] >>
    ELSE LET bad == Ascending({k \in 1..Len(files) : ~Row(files[k]).button})
         IN  [j \in 1..Len(bad) |->
                [name |-> files[bad[j]].name, msg |-> Row(files[bad[j]]).error]]

\* the names main() hands to the validators
MainValidated(files) ==
    IF BatchAccepted(files) THEN [k \in 1..Len(files) |-> files[k].name] ELSE <<>>

\* conversion_jobs after the loop: one job per pressed button, in file order;
\* choice[k] is the position of the selectbox of file k
MainJobs(files, clicked, choice) ==
    LET order == Ascending(clicked)
    IN  [j \in 1..Len(order) |->
           [file |-> files[order[j]],
            output_format |-> Row(files[order[j]]).supported_formats[choice[order[j]]],
            file_type |-> Row(files[order[j]]).file_type]]

\* one run of the script up to process_conversions' loop
RunMain(files, clicked, choice) ==
    /\ conversion_jobs' = MainJobs(files, clicked, choice)
    /\ errors' = MainErrors(files)
    /\ validated' = MainValidated(files)
    /\ calls' = <<>>
    /\ outcomes' = <<>>
    /\ i' = 1
    /\ pc' = IF clicked = {} THEN "idle" ELSE "converting"

\* the positions a user may leave the selectboxes of the pressed rows in
Choices(files, clicked) ==
    { c \in [clicked -> 1..5] :
        \A k \in clicked : c[k] <= Len(Row(files[k]).supported_formats) }

Init ==
    /\ uploaded_files = <<>>
    /\ converted_files = <<>>
    /\ conversion_jobs = <<>>
    /\ i = 1
    /\ pc = "idle"
    /\ errors = <<>>
    /\ validated = <<>>
    /\ calls = <<>>
    /\ outcomes = <<>>
    /\ arg = NoArg
    /\ result = NoResult

\* the user changes the uploader's files; the script runs, no button pressed
Upload(n) ==
    /\ pc = "idle"
    /\ uploaded_files' = Batch(n)
    /\ RunMain(Batch(n), {}, <<>>)
    /\ UNCHANGED <<converted_files, arg, result>>

\* the user presses Convert buttons; the script runs and builds the jobs
PressConvert(clicked, choice) ==
    /\ pc = "idle"
    /\ clicked # {}
    /\ Len(converted_files) + Cardinality(clicked) <= MaxConverted
    /\ RunMain(uploaded_files, clicked, choice)
    /\ UNCHANGED <<uploaded_files, converted_files, arg, result>>

\* mutant of AfterJob: an exception ends the loop
AfterJob_abort(idx, jobs, r) ==
    IF idx = Len(jobs) \/ ~r.ok THEN "finished" ELSE "converting"

\* where process_conversions stands after the iteration for job idx whose
\* convert_file gave r: an exception is caught inside the loop body, so the
\* loop goes on to the next job whatever r is
AfterJob(idx, jobs, r) == IF idx = Len(jobs) THEN "finished" ELSE "converting"

\* one iteration of the loop of process_conversions
ConvertJob(o) ==
    /\ pc = "converting"
    /\ LET job == conversion_jobs[i]
           r == convert_file(job.file, job.output_format, job.file_type, o)
       IN  /\ calls' = Append(calls, [job |-> i, name |-> job.file.name,
                                      size |-> job.file.size,
                                      file_type |-> job.file_type,
                                      strategy |-> Strategy(job.file_type),
                                      output_format |-> job.output_format])
           /\ IF r.ok
              THEN /\ errors' = errors
                   /\ IF r.data # <<>>
                      THEN /\ converted_files' =
                                Append(converted_files,
                                       [filename |-> r.filename, data |-> r.data,
                                        mime_type |-> r.mime_type])
                           /\ outcomes' = Append(outcomes,
                                                 [job |-> i, kind |-> "Success",
                                                  filename |-> r.filename,
                                                  data |-> r.data])
                      ELSE UNCHANGED <<converted_files, outcomes>>
              ELSE /\ errors' = Append(errors, [name |-> job.file.name, msg |-> r.err])
                   /\ outcomes' = Append(outcomes, [job |-> i, kind |-> "Failure"])
                   /\ UNCHANGED converted_files
    /\ i' = i + 1
    /\ pc' = AfterJob(i, conversion_jobs,
                      convert_file(conversion_jobs[i].file, conversion_jobs[i].output_format,
                                   conversion_jobs[i].file_type, o))
    /\ UNCHANGED <<uploaded_files, conversion_jobs, validated, arg, result>>

\* st.rerun() at the end of process_conversions: the script runs again
Rerun ==
    /\ pc = "finished"
    /\ RunMain(uploaded_files, {}, <<>>)
    /\ UNCHANGED <<uploaded_files, converted_files, arg, result>>

\* the Clear Downloads button (rendered when main() reaches the download
\* column and there are converted files), then st.rerun()
ClearDownloads ==
    /\ pc = "idle"
    /\ ~(Len(uploaded_files) > main_max_files)
    /\ converted_files # <<>>
    /\ converted_files' = <<>>
    /\ RunMain(uploaded_files, {}, <<>>)
    /\ UNCHANGED <<uploaded_files, arg, result>>

\* create_zip_archive(converted_files): the archive as the list of its
\* members; writestr appends one member per call, also under a name the
\* archive already holds
create_zip_archive(files) ==
    [k \in 1..Len(files) |-> [name |-> files[k].filename, data |-> files[k].data]]

\* the "Download All as ZIP" button is rendered: main() reaches the download
\* column and more than one converted file is stored.  Pressing it runs the
\* script with no Convert button pressed and hands
\* create_zip_archive(converted_files) to a download button; the state
\* stays as it is.
ZipOffered ==
    /\ pc = "idle"
    /\ ~(Len(uploaded_files) > main_max_files)
    /\ Len(converted_files) > 1

Next ==
    \/ \E n \in UploadSizes : Upload(n)
    \/ \E clicked \in SUBSET Buttons(uploaded_files) :
         /\ Cardinality(clicked) <= MaxClicks
         /\ \E choice \in Choices(uploaded_files, clicked) : PressConvert(clicked, choice)
    \/ \E o \in Oracles(IF pc = "converting" THEN conversion_jobs[i].file_type ELSE "none") :
         ConvertJob(o)
    \/ Rerun
    \/ ClearDownloads

Spec == Init /\ [][Next]_vars

(***************************************************************************)
(* Properties of the pipeline (specification Spec)                         *)
(***************************************************************************)
Range(seq) == {seq[k] : k \in 1..Len(seq)}

IsPrefix(a, b) == Len(a) <= Len(b) /\ SubSeq(b, 1, Len(a)) = a

\* C1: when process_conversions has gone through its jobs, it has reported
\* exactly one outcome (Success or Failure) per job, the k-th outcome being
\* that of the k-th job.
C1_OneOutcomePerJob ==
    pc = "finished" =>
        /\ Len(outcomes) = Len(conversion_jobs)
        /\ \A k \in 1..Len(outcomes) : outcomes[k].job = k

\* the size ceiling of a category as the specification states it
Ceiling(category) == IF category = "video" THEN 50 * MiB ELSE 100 * MiB

SizeError(name) == [name |-> name, msg |-> "File size exceeds limit"]

\* C2: in an accepted batch a file larger than its category's ceiling is
\* reported with the size-exceeded message and gets no Convert button, a file
\* of exactly the ceiling is not reported for its size, and no file larger
\* than its ceiling is ever handed to convert_file.
C2_SizeCeiling ==
    /\ BatchAccepted(uploaded_files) =>
         \A k \in 1..Len(uploaded_files) :
            LET f == uploaded_files[k]
                limit == Ceiling(get_file_type(f.name))
            IN  /\ f.size > limit =>
                      /\ SizeError(f.name) \in Range(errors)
                      /\ k \notin Buttons(uploaded_files)
                /\ f.size = limit => SizeError(f.name) \notin Range(errors)
    /\ \A c \in Range(calls) : c.size <= Ceiling(get_file_type(c.name))

\* C2 witness: in one run a file of exactly its ceiling has been handed to a
\* converter while a larger one was reported.
C2_Witness ==
    /\ \E c \in Range(calls) :
          c.size = Ceiling(get_file_type(c.name)) /\ c.strategy = "video"
    /\ \E e \in Range(errors) : e.msg = "File size exceeds limit"

\* C3: convert_file is invoked only for files that validate_file_size,
\* validate_file_type and validate_filename all accept.
C3_OnlyValidatedFilesConverted ==
    \A c \in Range(calls) :
        /\ validate_file_size(c.size, get_file_type(c.name)).ok
        /\ validate_file_type(c.name).ok
        /\ validate_filename(c.name).ok

BatchError == [name |-> <<>>, msg |-> "Please upload maximum 10 files at once"]

\* C4: with more than 10 files uploaded the run stops at the batch check: no
\* file is validated, no job is created, convert_file is not invoked and the
\* only message is the batch error; with 10 or fewer, every file is validated
\* and the batch error is not shown; validate_batch_size draws the same line.
C4_BatchLimit ==
    /\ Len(uploaded_files) > 10 =>
          /\ validated = <<>>
          /\ conversion_jobs = <<>>
          /\ calls = <<>>
          /\ pc = "idle"
          /\ errors = <<BatchError>>
    /\ Len(uploaded_files) <= 10 =>
          /\ Len(validated) = Len(uploaded_files)
          /\ BatchError \notin Range(errors)
    /\ validate_batch_size(Len(uploaded_files)).ok = (Len(uploaded_files) <= 10)

\* C4 witness: a batch of 11 has been rejected while converted files of an
\* earlier, accepted batch are still held.
C4_Witness ==
    /\ Len(uploaded_files) = 11
    /\ errors = <<BatchError>>
    /\ converted_files # <<>>

\* C5: every iteration of process_conversions, whatever its job's outcome,
\* hands its job to a converter, keeps the artifacts converted so far, and is
\* followed by the next job's iteration when there is one.
C5_FailureDoesNotAbortSiblings ==
    [][ pc = "converting" =>
          /\ Len(calls') = i
          /\ calls'[i].job = i
          /\ calls'[i].strategy # "none"
          /\ IsPrefix(converted_files, converted_files')
          /\ IsPrefix(outcomes, outcomes')
          /\ conversion_jobs' = conversion_jobs
          /\ i < Len(conversion_jobs) => (pc' = "converting" /\ i' = i + 1) ]_vars

\* C5 witness: the first job of a run raised, and the second was still
\* converted.
C5_Witness ==
    /\ pc = "finished"
    /\ Len(outcomes) = 2
    /\ outcomes[1] = [job |-> 1, kind |-> "Failure"]
    /\ outcomes[2].job = 2
    /\ outcomes[2].kind = "Success"
    /\ Len(calls) = 2

\* the output formats each converter declares
SupportedOutputs(strategy) ==
    CASE strategy = "document" -> Doc_supported_outputs
      [] strategy = "image"    -> Image_supported_formats
      [] strategy = "audio"    -> Audio_supported_formats
      [] strategy = "video"    -> Video_supported_formats
      [] OTHER                 -> {}

\* C8: every format get_supported_formats offers for a category is among the
\* declared outputs of that category's converter, the unknown category is
\* offered none, and every job and every convert_file call carries a known
\* category with a target among its converter's declared outputs.
C8_TargetsWithinSupportedOutputs ==
    /\ \A category \in {"document", "image", "audio", "video", "unknown"} :
          Range(get_supported_formats(category)) \subseteq SupportedOutputs(category)
    /\ get_supported_formats("unknown") = <<>>
    /\ \A job \in Range(conversion_jobs) :
          job.output_format \in SupportedOutputs(job.file_type)
    /\ \A c \in Range(calls) :
          /\ c.strategy # "none"
          /\ c.output_format \in SupportedOutputs(c.strategy)

\* C8 witness: a run has handed two files of different categories to their
\* converters.
C8_Witness ==
    /\ pc = "finished"
    /\ \E c, d \in Range(calls) : c.strategy = "image" /\ d.strategy = "audio"

(***************************************************************************)
(* Specifications that exercise one function: the arguments are chosen in  *)
(* the initial state, the one action calls the function.                   *)
\* the artifacts of the Success outcomes of the current batch, in order
RECURSIVE SuccessArtifacts(_)
SuccessArtifacts(outs) ==
    IF outs = <<>> THEN <<>>
    ELSE IF outs[1].kind = "Success"
         THEN <<[name |-> outs[1].filename, data |-> outs[1].data]>>
              \o SuccessArtifacts(Tail(outs))
         ELSE SuccessArtifacts(Tail(outs))

\* C17: when a batch has been processed and the script run that follows it
\* offers the archive, the archive's members are the Success outcomes of
\* that batch: one member each, with its output file name and bytes, in
\* outcome order, and nothing from an earlier batch.
C17_ArchiveHoldsTheBatch ==
    (pc = "finished" /\ Len(converted_files) > 1) =>
        create_zip_archive(converted_files) = SuccessArtifacts(outcomes)

(***************************************************************************)
PipelineAtRest ==
    /\ uploaded_files = <<>>
    /\ converted_files = <<>>
    /\ conversion_jobs = <<>>
    /\ i = 1
    /\ pc = "idle"
    /\ errors = <<>>
    /\ validated = <<>>
    /\ calls = <<>>
    /\ outcomes = <<>>

pipeline_vars ==
    <<uploaded_files, converted_files, conversion_jobs, i, pc, errors, validated,
      calls, outcomes>>

\* all sequences over alphabet of length at most n
SeqsUpTo(alphabet, n) == UNION {[1..m -> alphabet] : m \in 0..n}

(***************************************************************************)
(* SpecClassify: get_file_type on file names                               *)
(***************************************************************************)
\* endings: every extension of the four sets, some in upper or mixed case,
\* an unlisted one, none, and one followed by a '.'
NameEndings ==
    document_formats \cup image_formats \cup audio_formats \cup video_formats
    \cup { <<"P", "D", "F">>, <<"J", "p", "g">>, <<"M", "P", "3">>, <<"m", "K", "v">>,
           exe, <<>>, <<"p", "d", "f", ".">>, <<"p", "d">> }

\* names without path separators: a free part over {a, .}, then an ending,
\* joined with or without a '.'
ClassifyNames ==
    { stem \o sep \o ending :
        stem \in SeqsUpTo({"a", "."}, MaxStemLen), sep \in {<<>>, <<".">>},
        ending \in NameEndings }

InitClassify ==
    /\ PipelineAtRest
    /\ arg \in {[fn |-> "get_file_type", filename |-> n] : n \in ClassifyNames}
    /\ result = NoResult

Classify ==
    /\ arg.fn = "get_file_type"
    /\ result = NoResult
    /\ result' = [fn |-> "get_file_type", value |-> get_file_type(arg.filename)]
    /\ UNCHANGED <<arg, pipeline_vars>>

SpecClassify == InitClassify /\ [][Classify]_vars

(***************************************************************************)
(* SpecConvert: convert_file on one file and one target format, the        *)
(* category taken from the file name as main() does                        *)
(***************************************************************************)
ConvertNames ==
    { <<"a", ".", "t", "x", "t">>, <<"a", ".", "p", "d", "f">>,
      <<"a", ".", "d", "o", "c">>, <<"a", ".", "d", "o", "c", "x">>,
      <<"a", ".", "r", "t", "f">>, <<"a", ".", "o", "d", "t">>,
      <<"a", ".", "b", ".", "T", "X", "T">>,
      <<"p", ".", "x", ".", "p", "n", "g">>, <<"s", ".", "m", "p", "3">>,
      <<"s", ".", "a", "a", "c">>, <<"v", ".", "1", ".", "A", "V", "I">> }

\* content: for documents every byte string over 'A', LF, CR, 0xFF up to
\* MaxDataLen; for the other categories one byte
ConvertData(name) ==
    IF get_file_type(name) = "document"
    THEN SeqsUpTo({65, 10, 13, 255}, MaxDataLen)
    ELSE { <<0>> }

\* target formats, in the spelling a caller may use
ConvertTargets ==
    { pdf, docx, txt, <<"T", "X", "T">>, <<"P", "D", "F">>, doc,
      jpg, png, <<"P", "n", "g">>, bmp,
      mp3, <<"M", "P", "3">>, ogg,
      mp4, <<"M", "P", "4">>, webm, exe }

InitConvert ==
    /\ PipelineAtRest
    /\ arg \in UNION { { [fn |-> "convert_file", file |-> File(n, Len(d), d),
                           output_format |-> t] :
                            d \in ConvertData(n), t \in ConvertTargets } :
                        n \in ConvertNames }
    /\ result = NoResult

CallConvert(o) ==
    /\ arg.fn = "convert_file"
    /\ result = NoResult
    /\ result' = [fn |-> "convert_file",
                  value |-> convert_file(arg.file, arg.output_format,
                                         get_file_type(arg.file.name), o),
                  oracle |-> o]
    /\ UNCHANGED <<arg, pipeline_vars>>

NextConvert ==
    \E o \in Oracles(IF arg.fn = "convert_file" THEN get_file_type(arg.file.name) ELSE "none") :
        CallConvert(o)

SpecConvert == InitConvert /\ [][NextConvert]_vars

(***************************************************************************)
(* Properties of get_file_type (specification SpecClassify)                *)
(***************************************************************************)
\* the category of an extension by the four membership sets
CategoryOf(ext) ==
    IF ext \in {pdf, doc, docx, txt, rtf, odt} THEN "document"
    ELSE IF ext \in {jpg, jpeg, png, gif, webp, bmp, tiff, svg} THEN "image"
    ELSE IF ext \in {mp3, wav, m4a, ogg, flac, aac, wma} THEN "audio"
    ELSE IF ext \in {mp4, avi, mov, mkv, webm, flv, wmv, threegp} THEN "video"
    ELSE "unknown"

\* the lower-cased text after the last '.', empty when there is no '.'
AfterLastDot(name) ==
    IF RFindDot(name) = 0 THEN <<>> ELSE Lower(From(name, RFindDot(name) + 1))

\* C10 as stated: get_file_type classifies by the lower-cased text after the
\* last '.', so that '.pdf' is a document.
C10_ClassifiesByTextAfterLastDot ==
    result.fn = "get_file_type" => result.value = CategoryOf(AfterLastDot(arg.filename))

\* C10 amended: get_file_type classifies by the lower-cased text after the
\* last '.', except that a '.' which is the first character of the name
\* starts no extension: such a name, like one without '.' or ending in '.',
\* is 'unknown'.
C10_ClassifiesBySuffix ==
    result.fn = "get_file_type" =>
        result.value =
            IF RFindDot(arg.filename) <= 1 THEN "unknown"
            ELSE CategoryOf(AfterLastDot(arg.filename))

\* C10 witness: '.pdf' has been classified, as 'unknown'.
C10_Witness ==
    /\ arg.fn = "get_file_type"
    /\ arg.filename = <<".", "p", "d", "f">>
    /\ result.fn = "get_file_type"
    /\ result.value = "unknown"

(***************************************************************************)
(* Properties of the converters (specification SpecConvert)                *)
(***************************************************************************)
\* the input extension of the converted file, lower-cased
InputExt(name) == Lower(SplitLast(name))

Converted == result.fn = "convert_file"

\* C6: for a document, an input whose extension equals the target comes back
\* byte for byte, and an input whose extension differs from the target is
\* never returned as it was read.
C6_PassthroughIffSameFormat ==
    (Converted /\ get_file_type(arg.file.name) = "document") =>
        LET ext == InputExt(arg.file.name)
            r == result.value
        IN  /\ (ext \in {txt, pdf, docx} /\ ext = arg.output_format) =>
                  (r.ok /\ r.data = arg.file.data)
            /\ (ext # arg.output_format) => ~(r.ok /\ r.passthrough)

\* C7: a document with an extension among the converter's supported inputs
\* and a target among its supported outputs is not rejected as an unsupported
\* input or output format.
C7_SupportedPairsNotRejected ==
    (/\ Converted
     /\ get_file_type(arg.file.name) = "document"
     /\ InputExt(arg.file.name) \in {pdf, doc, docx, txt, rtf}
     /\ arg.output_format \in {pdf, docx, txt})
    => result.value.err \notin {"Unsupported input format", "Unsupported output format"}

\* C9: whichever converter produced it, the file name of a successful
\* conversion is the stem of the original name, a '.', and the target format
\* in lower case.
C9_OutputFilename ==
    (Converted /\ result.value.ok) =>
        result.value.filename =
            PathStem(arg.file.name) \o <<".">> \o Lower(arg.output_format)

\* C9 witness: a conversion to a target spelled in upper case succeeded, from
\* a name with two dots.
C9_Witness ==
    /\ Converted
    /\ result.value.ok
    /\ arg.output_format = <<"M", "P", "4">>
    /\ arg.file.name = <<"v", ".", "1", ".", "A", "V", "I">>

(***************************************************************************)
(* Temporary files, the external tool and the audio loaders                *)
(***************************************************************************)
\* the temporary files a call created and did not remove
Leftover(log) ==
    { log[k].file : k \in { j \in 1..Len(log) : log[j].op = "create" } }
    \ { log[k].file : k \in { j \in 1..Len(log) : log[j].op = "unlink" } }

\* the operations of a call with the given name, in order
RECURSIVE OpsNamed(_, _)
OpsNamed(log, op) ==
    IF log = <<>> THEN <<>>
    ELSE IF log[1].op = op THEN <<log[1]>> \o OpsNamed(Tail(log), op)
    ELSE OpsNamed(Tail(log), op)

\* C11: when convert_file has produced its outcome (a value or an exception),
\* every temporary file the call created (the input copy, the output file of
\* the audio and video converters) has been removed, on every exit path,
\* a failure while writing the uploaded bytes included.
C11_NoTemporaryFileLeft ==
    result # NoResult => Leftover(result.value.log) = {}

\* the call and its environment, for the claims about one converter
Strategy_is(file_type) ==
    /\ Converted
    /\ get_file_type(arg.file.name) = file_type
    /\ result.oracle.write_ok

InstallMessage == "Video conversion requires FFmpeg installation"

\* C12: in the video converter, when the availability check fails (the
\* version query exits nonzero, times out or finds no ffmpeg), the call fails
\* with the tool-unavailable error, and neither a temporary output file was
\* created nor the conversion subprocess started.
C12_UnavailableToolFailsBeforeProcessing ==
    (Strategy_is("video") /\ result.oracle.version # "ok") =>
        LET r == result.value
        IN  /\ ~r.ok
            /\ r.err = InstallMessage
            /\ OpsNamed(r.log, "check_ffmpeg") # <<>>
            /\ OpsNamed(r.log, "run_ffmpeg") = <<>>
            /\ \A k \in 1..Len(r.log) : r.log[k].file # "video_output"

\* C12 witness: the version query timed out and the call has failed.
C12_Witness ==
    /\ Strategy_is("video")
    /\ result.oracle.version = "timeout"
    /\ ~result.value.ok
    /\ OpsNamed(result.value.log, "check_ffmpeg") # <<>>

\* C13: in the video converter, when ffmpeg is available and the conversion
\* subprocess exits nonzero or times out, the call fails with an error that
\* differs from the tool-unavailable error and carries the captured stderr.
C13_ExternalToolFailureIsReported ==
    (/\ Strategy_is("video")
     /\ result.oracle.version = "ok"
     /\ result.oracle.ffmpeg \in {"nonzero", "timeout"})
    => LET r == result.value
       IN  /\ ~r.ok
           /\ r.err # InstallMessage
           /\ \E k \in 1..Len(r.err_args) : r.err_args[k] = result.oracle.stderr

FallbackMessage == "Failed to convert audio. Fallback also failed"

\* C14: in the audio converter, when the extension-specific loader raises,
\* the generic loader is called exactly once; if it loads, the export is
\* entered; and the call fails with the error that carries the primary and
\* the fallback error only if the generic loader failed too.
C14_FallbackLoader ==
    (/\ Strategy_is("audio")
     /\ arg.output_format \in Audio_supported_formats
     /\ InputExt(arg.file.name) \in {mp3, wav, m4a, ogg, flac}
     /\ ~result.oracle.primary_ok)
    => LET r == result.value
       IN  /\ Len(OpsNamed(r.log, "from_file")) = 1
           /\ result.oracle.generic_ok =>
                  \E k \in 1..Len(r.log) :
                      r.log[k] = Ev("create", AudioTmp(1))
           /\ (~r.ok /\ r.err = FallbackMessage) => ~result.oracle.generic_ok

\* C15: in the audio converter, when the input was decoded and the export
\* fails, the call fails, the input was decoded once, the export was entered
\* once, and the error is not the one of the failed fallback.
C15_EncodeFailure ==
    (/\ Strategy_is("audio")
     /\ arg.output_format \in Audio_supported_formats
     /\ Audio_primary_loads(InputExt(arg.file.name), result.oracle)
     /\ ~result.oracle.export_ok[1])
    => LET r == result.value
       IN  /\ ~r.ok
           /\ Len(OpsNamed(r.log, "load_specific")) + Len(OpsNamed(r.log, "from_file")) = 1
           /\ Len(OpsNamed(r.log, "export")) = 1
           /\ r.err # FallbackMessage

(***************************************************************************)
(* SpecValidate: validate_filename on file names                           *)
(***************************************************************************)
\* n times the character c
Repeat(c, n) == [k \in 1..n |-> c]

\* the middle of a name: reserved names in several spellings, near misses,
\* the dangerous patterns in several spellings, near misses, and nothing
NameCores ==
    { <<"C", "O", "N">>, <<"c", "o", "n">>, <<"P", "r", "n">>, <<"A", "U", "X">>,
      <<"n", "u", "l">>, <<"C", "O", "M", "1">>, <<"c", "o", "m", "9">>,
      <<"L", "P", "T", "1">>, <<"l", "p", "t", "9">>,
      <<"C", "O", "M", "0">>, <<"C", "O", "M">>, <<"L", "P", "T", "1", "0">>,
      <<".", ".", "/">>, <<".", "\\">>, <<".", ".", "\\">>,
      <<"<", "s", "c", "r", "i", "p", "t">>, <<"<", "S", "c", "r", "i", "p", "t">>,
      <<"<", "s", "c", "r", "i", "p">>, <<"<", "?", "p", "h", "p">>,
      <<"<", "?", "P", "H", "P">>, <<"#", "!", "/">>, <<"#", "!">>, <<>> }

\* what follows the middle: nothing, extensions, a dot, separators
NameTails ==
    { <<>>, <<".", "t", "x", "t">>, <<".", "t", "a", "r", ".", "g", "z">>,
      <<".">>, <<"/">>, <<"/", ".">>, <<" ">> }

\* names around the length limit: plain ones, and reserved stems padded
\* through their extension
LongNames ==
    { Repeat("a", n) : n \in (max_filename_length - 1)..(max_filename_length + 2) }
    \cup { <<"C", "O", "N", ".">> \o Repeat("a", n) :
             n \in (max_filename_length - 5)..(max_filename_length - 3) }
    \cup { Repeat(" ", max_filename_length + 1) }

\* a free part over {a, ., /, space, tab}, a middle and a tail; and the
\* long names
ValidateNames ==
    { head \o core \o tail :
        head \in SeqsUpTo({"a", ".", "/", " ", "\t"}, MaxStemLen),
        core \in NameCores, tail \in NameTails }
    \cup LongNames

InitValidate ==
    /\ PipelineAtRest
    /\ arg \in {[fn |-> "validate_filename", filename |-> n] : n \in ValidateNames}
    /\ result = NoResult

Validate ==
    /\ arg.fn = "validate_filename"
    /\ result = NoResult
    /\ result' = [fn |-> "validate_filename", value |-> validate_filename(arg.filename)]
    /\ UNCHANGED <<arg, pipeline_vars>>

SpecValidate == InitValidate /\ [][Validate]_vars

\* the substrings and the device names the claim lists
ListedPatterns ==
    { <<".", ".", "/">>, <<".", "\\">>, <<"<", "s", "c", "r", "i", "p", "t">>,
      <<"<", "?", "p", "h", "p">>, <<"#", "!", "/">> }

ListedDevices ==
    { <<"C", "O", "N">>, <<"P", "R", "N">>, <<"A", "U", "X">>, <<"N", "U", "L">> }
    \cup { prefix \o <<digit>> :
             prefix \in { <<"C", "O", "M">>, <<"L", "P", "T">> },
             digit \in {"1", "2", "3", "4", "5", "6", "7", "8", "9"} }

\* C16: validate_filename rejects a name exactly when it is empty or only
\* whitespace, or longer than 255 characters, or holds one of the listed
\* substrings in any letter case, or its stem is a listed device name in any
\* letter case; so a name of exactly 255 characters with none of these is
\* accepted.
C16_RejectsExactlyTheListed ==
    result.fn = "validate_filename" =>
        LET n == arg.filename
        IN  ~result.value.ok <=>
              \/ n = <<>>
              \/ \A k \in 1..Len(n) : n[k] \in {" ", "\t"}
              \/ Len(n) > 255
              \/ \E p \in ListedPatterns : Contains(Lower(n), p)
              \/ Upper(PathStem(PathName(n))) \in ListedDevices

\* C16 witness: a name of exactly 255 characters has been accepted.
C16_Witness ==
    /\ result.fn = "validate_filename"
    /\ Len(arg.filename) = 255
    /\ result.value.ok

(***************************************************************************)
(* Documents: extraction and rendering                                     *)
(***************************************************************************)
\* the call converted a document with the given extension to the target
Document_call(ext, target) ==
    /\ Strategy_is("document")
    /\ InputExt(arg.file.name) = ext
    /\ arg.output_format = target

\* the texts with one newline between consecutive ones
Separated(parts) ==
    LET total == Len(parts)
        Piece(k) == IF k < total THEN parts[k] \o <<10>> ELSE parts[k]
        Upto[k \in 0..total] == IF k = 0 THEN <<>> ELSE Upto[k - 1] \o Piece(k)
    IN  Upto[total]

\* C18 as stated: for pdf to txt, the content is the page texts with a single
\* newline between consecutive pages and none after the last, UTF-8 encoded;
\* the file name is the stem and '.txt', the MIME type text/plain.
C18_PagesJoinedByNewline ==
    (Document_call(pdf, txt) /\ result.oracle.extract_ok) =>
        /\ result.value.ok
        /\ result.value.data = Separated(result.oracle.parts)
        /\ result.value.filename = PathStem(arg.file.name) \o <<".", "t", "x", "t">>
        /\ result.value.mime_type = "text/plain"

\* C18 amended: for pdf to txt, the content is the page texts each followed
\* by a newline (so it ends with a newline unless the PDF has no page),
\* UTF-8 encoded; the file name is the stem and '.txt', the MIME type
\* text/plain.
C18_PagesEachEndedByNewline ==
    (Document_call(pdf, txt) /\ result.oracle.extract_ok) =>
        /\ result.value.ok
        /\ result.value.data =
              IF result.oracle.parts = <<>> THEN <<>>
              ELSE Separated(result.oracle.parts) \o <<10>>
        /\ result.value.filename = PathStem(arg.file.name) \o <<".", "t", "x", "t">>
        /\ result.value.mime_type = "text/plain"

\* C18 witness: a PDF of two pages has been converted to txt.
C18_Witness ==
    /\ Document_call(pdf, txt)
    /\ result.oracle.extract_ok
    /\ Len(result.oracle.parts) = 2
    /\ result.value.ok

\* "Unable to extract text from " and the format named, as code points
Unable(format_name) ==
    <<85, 110, 97, 98, 108, 101, 32, 116, 111, 32, 101, 120, 116, 114, 97,
      99, 116, 32, 116, 101, 120, 116, 32, 102, 114, 111, 109, 32>>
    \o format_name

\* the bytes of a text rendered into the target format
Rendered(text, target) ==
    CASE target = txt  -> text
      [] target = pdf  -> PdfMagic \o text
      [] target = docx -> ZipMagic \o text

\* C19: when the text of a pdf, doc or docx input cannot be extracted, the
\* document converter does not raise: with a working renderer the call
\* succeeds and its content is the fixed placeholder text ("Unable to
\* extract text from PDF" or "... from DOCX") rendered into the target
\* format.
C19_PlaceholderOnExtractionFailure ==
    \A ext \in {pdf, doc, docx}, target \in {pdf, docx, txt} :
        (/\ Document_call(ext, target)
         /\ target # (IF ext = doc THEN docx ELSE ext)
         /\ ~result.oracle.extract_ok
         /\ result.oracle.lib_ok)
        => /\ result.value.ok
           /\ result.value.data =
                 Rendered(Unable(IF ext = pdf THEN <<80, 68, 70>>
                                 ELSE <<68, 79, 67, 88>>), target)

\* C19 witness: a PDF whose text could not be extracted has been converted
\* to docx.
C19_Witness ==
    /\ Document_call(pdf, docx)
    /\ ~result.oracle.extract_ok
    /\ result.value.ok

(***************************************************************************)
(* SpecLayout: DocumentConverter._txt_to_pdf, one step per loop iteration  *)
(*                                                                         *)
(* result holds the locals of the call: the lines and the words still to   *)
(* visit, current_line, y_position, page_num, and what the canvas was told *)
(* to draw (page, y, text).  Lengths on the page are in points; string     *)
(* widths are in thousandths of a point.                                   *)
(***************************************************************************)
\* reportlab.lib.pagesizes.letter
page_width == 612
page_height == 792
margin == 50
line_height == 14

\* width - 2 * margin
printable_width == (page_width - 2 * margin) * 1000

\* c.stringWidth in the canvas' initial font, Helvetica 12, for the
\* characters of the texts below (278, 556 and 944 thousandths of the size)
StringWidth(s) ==
    LET Count(c) == Cardinality({ k \in 1..Len(s) : s[k] = c })
    IN  Count(" ") * 3336 + Count("a") * 6672 + Count("W") * 11328

\* str.strip() of a text whose only whitespace is ' '
Strip(s) ==
    LET inked == { k \in 1..Len(s) : s[k] # " " }
    IN  IF inked = {} THEN <<>>
        ELSE SubSeq(s, CHOOSE k \in inked : \A j \in inked : k <= j,
                       CHOOSE k \in inked : \A j \in inked : j <= k)

\* str.split(sep) for a one-character sep
RECURSIVE SplitOn(_, _)
SplitOn(s, sep) ==
    LET hits == { k \in 1..Len(s) : s[k] = sep }
    IN  IF hits = {} THEN <<s>>
        ELSE LET first == CHOOSE k \in hits : \A j \in hits : k <= j
             IN  <<SubSeq(s, 1, first - 1)>> \o SplitOn(From(s, first + 1), sep)

\* mutant of NeedsNewPage: the page is left at the paper's edge
NeedsNewPage_at_edge(y_position) == y_position < 0

\* if y_position < margin
NeedsNewPage(y_position) == y_position < margin

\* c.drawString(margin, y_position, current_line.strip()); y_position -=
\* line_height; and the page break that follows
DrawLine(st) ==
    LET below == st.y_position - line_height
    IN  [st EXCEPT
           !.drawn = Append(@, [page |-> st.page_num, y |-> st.y_position,
                                text |-> Strip(st.current_line)]),
           !.y_position = IF NeedsNewPage(below) THEN page_height - margin ELSE below,
           !.page_num = IF NeedsNewPage(below) THEN @ + 1 ELSE @]

\* the locals after `y_position = height - margin; page_num = 1`
LayoutStart(text_content) ==
    [fn |-> "_txt_to_pdf", lines |-> SplitOn(text_content, "\n"), words |-> <<>>,
     in_line |-> FALSE, current_line |-> <<>>, y_position |-> page_height - margin,
     page_num |-> 1, drawn |-> <<>>, saved |-> FALSE]

\* texts: words of ten 'W' (113 points), a word wider than the printable
\* width, short words, doubled and leading spaces, empty lines
Paragraph(n) == [k \in 1..(11 * n - 1) |-> IF k % 11 = 0 THEN " " ELSE "W"]

LongWord == Repeat("W", 50)

LayoutLines ==
    { <<>>, <<"a">>, <<"a", " ", " ", "a">>, <<" ", "a", " ">>, LongWord,
      <<"a", " ">> \o LongWord \o <<" ", "a">>, LongWord \o <<" ">> \o LongWord }
    \cup { Paragraph(n) : n \in (MaxWords - 2)..MaxWords }

\* n lines "a", each ended by a newline
ShortLines(n) == [k \in 1..(2 * n) |-> IF k % 2 = 1 THEN "a" ELSE "\n"]

LayoutTexts ==
    LayoutLines
    \cup { first \o <<"\n">> \o second : first \in LayoutLines, second \in LayoutLines }
    \cup { ShortLines(n) \o last :
             n \in (MaxTextLines - 2)..(MaxTextLines - 1), last \in LayoutLines }
    \cup { Repeat("\n", MaxTextLines - 1) }

InitLayout ==
    /\ PipelineAtRest
    /\ arg \in {[fn |-> "_txt_to_pdf", text_content |-> t] : t \in LayoutTexts}
    /\ result = LayoutStart(arg.text_content)

\* for line in lines: words = line.split(' '); current_line = ""
Layout_line ==
    /\ result.fn = "_txt_to_pdf"
    /\ ~result.saved /\ ~result.in_line /\ result.lines # <<>>
    /\ result' = [result EXCEPT !.words = SplitOn(Head(result.lines), " "),
                                !.lines = Tail(@), !.current_line = <<>>,
                                !.in_line = TRUE]
    /\ UNCHANGED <<arg, pipeline_vars>>

\* for word in words: the body of the inner loop
Layout_word ==
    /\ result.fn = "_txt_to_pdf"
    /\ result.in_line /\ result.words # <<>>
    /\ LET word == Head(result.words)
           test_line == result.current_line \o word \o <<" ">>
           rest == [result EXCEPT !.words = Tail(@)]
       IN  result' =
             IF StringWidth(test_line) < printable_width
             THEN [rest EXCEPT !.current_line = test_line]
             ELSE [(IF result.current_line # <<>> THEN DrawLine(rest) ELSE rest)
                     EXCEPT !.current_line = word \o <<" ">>]
    /\ UNCHANGED <<arg, pipeline_vars>>

\* after the inner loop: if current_line: draw it
Layout_line_end ==
    /\ result.fn = "_txt_to_pdf"
    /\ result.in_line /\ result.words = <<>>
    /\ result' = [(IF result.current_line # <<>> THEN DrawLine(result) ELSE result)
                     EXCEPT !.in_line = FALSE]
    /\ UNCHANGED <<arg, pipeline_vars>>

\* c.save()
Layout_save ==
    /\ result.fn = "_txt_to_pdf"
    /\ ~result.saved /\ ~result.in_line /\ result.lines = <<>>
    /\ result' = [result EXCEPT !.saved = TRUE]
    /\ UNCHANGED <<arg, pipeline_vars>>

NextLayout == Layout_line \/ Layout_word \/ Layout_line_end \/ Layout_save

SpecLayout == InitLayout /\ [][NextLayout]_vars

\* the words of a text, in order: the maximal runs of characters other than
\* ' ' and newline
WordsOf(s) ==
    LET gaps == {" ", "\n"}
        starts == { a \in 1..Len(s) : s[a] \notin gaps /\ (a = 1 \/ s[a - 1] \in gaps) }
        WordEnd(a) ==
            LET stops == { k \in a..Len(s) : s[k] \in gaps }
            IN  IF stops = {} THEN Len(s)
                ELSE (CHOOSE k \in stops : \A j \in stops : k <= j) - 1
        Nth(n) == CHOOSE a \in starts : Cardinality({ b \in starts : b <= a }) = n
    IN  [n \in 1..Cardinality(starts) |-> SubSeq(s, Nth(n), WordEnd(Nth(n)))]

\* the drawn lines as one text, a newline after each
DrawnText(drawn) ==
    LET Upto[k \in 0..Len(drawn)] ==
            IF k = 0 THEN <<>> ELSE Upto[k - 1] \o drawn[k].text \o <<"\n">>
    IN  Upto[Len(drawn)]

\* C20: in _txt_to_pdf, every line is drawn with the cursor between the
\* bottom margin (50) and the top margin (page height - 50); the first line
\* is drawn at the top of page 1, each next line 14 lower on the same page,
\* or at the top of the next page as soon as 14 lower would be below the
\* bottom margin; a drawn line wider than the printable width is a single
\* word; and when the canvas is saved, the words drawn are the words of the
\* input, each once and in the input's order.
C20_TextToPdfLayout ==
    result.fn = "_txt_to_pdf" =>
        LET drawn == result.drawn
            top == page_height - 50
        IN  /\ \A k \in 1..Len(drawn) : 50 <= drawn[k].y /\ drawn[k].y <= top
            /\ drawn # <<>> => (drawn[1].y = top /\ drawn[1].page = 1)
            /\ \A k \in 1..(Len(drawn) - 1) :
                  IF drawn[k].y - 14 < 50
                  THEN drawn[k + 1].y = top /\ drawn[k + 1].page = drawn[k].page + 1
                  ELSE drawn[k + 1].y = drawn[k].y - 14
                       /\ drawn[k + 1].page = drawn[k].page
            /\ \A k \in 1..Len(drawn) :
                  StringWidth(drawn[k].text) > printable_width =>
                      \A j \in 1..Len(drawn[k].text) : drawn[k].text[j] # " "
            /\ result.saved => WordsOf(DrawnText(drawn)) = WordsOf(arg.text_content)

\* C20 witness: a text has been rendered onto two pages, with a wrapped
\* line and a line wider than the printable width.
C20_Witness ==
    /\ result.fn = "_txt_to_pdf"
    /\ result.saved
    /\ result.page_num = 2
    /\ Len(result.drawn) > Len(SplitOn(arg.text_content, "\n"))
    /\ \E k \in 1..Len(result.drawn) :
          StringWidth(result.drawn[k].text) > printable_width

(***************************************************************************)
(* converters/image_converter.py on decoded images                         *)
(*                                                                         *)
(* What Image.open returns is a record                                     *)
(*   mode          "RGB" | "RGBA" | "L" | "LA" | "P"                       *)
(*   transparency  'transparency' in img.info (a palette image whose       *)
(*                 index 0 is declared transparent)                        *)
(*   frames        the frames; each has px, its pixels in the image's      *)
(*                 mode, and duration, <<>> or <<d>> for                   *)
(*                 frame.info['duration'] = d milliseconds                 *)
(* A pixel is the tuple of its bands.  Colours are black and white; the    *)
(* palette of a "P" image is <<black, white>>.  What save() writes is the  *)
(* record of the image handed to the encoder: format, mode, frames, and    *)
(* for an animated GIF the loop count.                                     *)
(***************************************************************************)
White == <<255, 255, 255>>

\* the palette entry of an index
Palette(index) == IF index = 0 THEN <<0, 0, 0>> ELSE White

\* Image.convert('RGB') on one pixel: alpha is dropped
ConvertRGB(mode, p) ==
    CASE mode = "RGB"  -> p
      [] mode = "RGBA" -> SubSeq(p, 1, 3)
      [] mode \in {"L", "LA"} -> <<p[1], p[1], p[1]>>
      [] mode = "P"    -> Palette(p[1])

\* the alpha Image.convert('RGBA') gives one pixel
AlphaOf(img, p) ==
    CASE img.mode = "RGBA" -> p[4]
      [] img.mode = "LA"   -> p[2]
      [] img.mode = "P"    -> IF img.transparency /\ p[1] = 0 THEN 0 ELSE 255
      [] OTHER             -> 255

\* RGB image.quantize(colors=256) on one pixel: its index in the palette
Quantize(rgb) == IF rgb = White THEN <<1>> ELSE <<0>>

\* background.paste(img, mask=...) onto Image.new('RGB', size, white), one
\* pixel: with the alpha band as mask the source shows where alpha is 255
\* and the background where it is 0; with mask=None the source's colour
\* bands are copied whatever its alpha
PasteOnWhite(img, p, with_mask) ==
    IF with_mask /\ AlphaOf(img, p) = 0 THEN White ELSE ConvertRGB(img.mode, p)

\* the pixels of the frame an opened image stands at, frame 0
Frame0(img) == img.frames[1].px

Saved(format, mode, frames) ==
    [ok |-> TRUE, format |-> format, mode |-> mode, frames |-> frames]

\* ImageConverter._convert_to_jpeg.  A "P" image is converted to RGBA first,
\* so its mask is its alpha; an "LA" image is pasted with mask=None
Image_convert_to_jpeg(img) ==
    LET Flat(p) == IF img.mode \in {"RGBA", "LA", "P"}
                   THEN PasteOnWhite(img, p, img.mode \in {"RGBA", "P"})
                   ELSE ConvertRGB(img.mode, p)
    IN  Saved("JPEG", "RGB", <<[px |-> [k \in DOMAIN Frame0(img) |-> Flat(Frame0(img)[k])]]>>)

\* ImageConverter._convert_to_bmp: the white background is used only if
\* 'transparency' is in img.info
Image_convert_to_bmp(img) ==
    LET Flat(p) == IF img.mode \in {"RGBA", "LA", "P"} /\ img.transparency
                   THEN PasteOnWhite(img, p, img.mode \in {"RGBA", "P"})
                   ELSE ConvertRGB(img.mode, p)
    IN  Saved("BMP", "RGB", <<[px |-> [k \in DOMAIN Frame0(img) |-> Flat(Frame0(img)[k])]]>>)

\* the mode and pixels after `img.convert('RGBA')` or `img.convert('RGB')`
Converted_frame(img, to_rgba) ==
    LET Map(p) == IF to_rgba THEN ConvertRGB(img.mode, p) \o <<AlphaOf(img, p)>>
                  ELSE ConvertRGB(img.mode, p)
    IN  <<[px |-> [k \in DOMAIN Frame0(img) |-> Map(Frame0(img)[k])]]>>

\* ImageConverter._convert_to_png: save() without save_all writes the
\* current frame, frame 0
Image_convert_to_png(img) ==
    IF img.mode \in {"RGB", "RGBA", "L", "LA"}
    THEN Saved("PNG", img.mode, <<[px |-> Frame0(img)]>>)
    ELSE IF img.transparency
    THEN Saved("PNG", "RGBA", Converted_frame(img, TRUE))
    ELSE Saved("PNG", "RGB", Converted_frame(img, FALSE))

\* ImageConverter._convert_to_webp
Image_convert_to_webp(img) ==
    IF img.mode \in {"RGB", "RGBA"}
    THEN Saved("WebP", img.mode, <<[px |-> Frame0(img)]>>)
    ELSE IF img.transparency \/ img.mode \in {"RGBA", "LA"}
    THEN Saved("WebP", "RGBA", Converted_frame(img, TRUE))
    ELSE Saved("WebP", "RGB", Converted_frame(img, FALSE))

\* frame.info.get('duration', 100)
DurationOf(frame) == IF frame.duration = <<>> THEN 100 ELSE frame.duration[1]

\* the frame written for one source frame of an animation:
\* frame.convert('RGB').quantize(colors=256)
Frame_p(img, k) ==
    [j \in 1..Len(img.frames[k].px) |->
        Quantize(ConvertRGB(img.mode, img.frames[k].px[j]))]

\* Pillow's GIF writer under save_all=True: a frame identical to the one
\* before it is not written, its duration is added to that frame's
RECURSIVE Gif_write_multiple_frames(_, _)
Gif_write_multiple_frames(written, frames) ==
    IF frames = <<>> THEN written
    ELSE IF written # <<>> /\ written[Len(written)].px = Head(frames).px
    THEN Gif_write_multiple_frames(
             [written EXCEPT ![Len(written)].duration = @ + Head(frames).duration],
             Tail(frames))
    ELSE Gif_write_multiple_frames(Append(written, Head(frames)), Tail(frames))

\* ImageConverter._convert_to_gif: img.seek(1) succeeds if there is a second
\* frame
Image_convert_to_gif(img) ==
    LET is_animated == Len(img.frames) > 1
        frames == [k \in 1..Len(img.frames) |->
                      [px |-> Frame_p(img, k), duration |-> DurationOf(img.frames[k])]]
        Flat(p) == Quantize(IF img.mode \in {"RGBA", "LA"}
                            THEN PasteOnWhite(img, p, TRUE)
                            ELSE ConvertRGB(img.mode, p))
    IN  IF is_animated
        THEN Saved("GIF", "P", Gif_write_multiple_frames(<<>>, frames)) @@ [loop |-> 0]
        ELSE IF img.mode # "P"
        THEN Saved("GIF", "P", <<[px |-> [k \in DOMAIN Frame0(img) |-> Flat(Frame0(img)[k])]]>>)
        ELSE Saved("GIF", "P", <<[px |-> Frame0(img)]>>)

\* ImageConverter.convert from the opened image on: the file that is saved,
\* or the exception
Image_convert_opened(img, output_format) ==
    LET target == Lower(output_format)
    IN  CASE target \in {jpg, jpeg} -> Image_convert_to_jpeg(img)
          [] target = png  -> Image_convert_to_png(img)
          [] target = gif  -> Image_convert_to_gif(img)
          [] target = webp -> Image_convert_to_webp(img)
          [] target = bmp  -> Image_convert_to_bmp(img)
          [] OTHER -> [ok |-> FALSE, err |-> "Failed to convert image"]

(***************************************************************************)
(* SpecImage: ImageConverter.convert applied to decoded images.            *)
(***************************************************************************)
Levels == {0, 255}

ImagePixels(mode) ==
    CASE mode = "RGB"  -> {<<v, v, v>> : v \in Levels}
      [] mode = "RGBA" -> {<<v, v, v, a>> : v \in Levels, a \in Levels}
      [] mode = "L"    -> {<<v>> : v \in Levels}
      [] mode = "LA"   -> {<<v, a>> : v \in Levels, a \in Levels}
      [] mode = "P"    -> {<<0>>, <<1>>}

ImageModes == {"RGB", "RGBA", "L", "LA", "P"}

\* decoders put 'transparency' in info for palette images only
Declared(mode) == IF mode = "P" THEN BOOLEAN ELSE {FALSE}

\* single-frame images of up to MaxPixels pixels
Stills ==
    {[mode |-> m, transparency |-> t, frames |-> <<[px |-> px, duration |-> <<>>]>>] :
        <<m, t, px>> \in UNION {{<<m, t, px>> :
            t \in Declared(m), px \in SeqsUpTo(ImagePixels(m), MaxPixels) \ {<<>>}} :
            m \in ImageModes}}

\* images of 2..MaxFrames one-pixel frames
Animations ==
    UNION {{[mode |-> m, transparency |-> t, frames |-> fs] :
               t \in Declared(m),
               fs \in {f \in SeqsUpTo([px : {<<p>> : p \in ImagePixels(m)},
                                         duration : {<<>>, <<20>>, <<100>>}], MaxFrames) :
                           Len(f) > 1}} :
           m \in ImageModes}

ImageTargets == Image_supported_formats \cup {<<"J", "P", "G">>, exe}

InitImage ==
    /\ PipelineAtRest
    /\ arg \in {[fn |-> "ImageConverter.convert", img |-> img, output_format |-> t] :
                  img \in Stills \cup Animations, t \in ImageTargets}
    /\ result = NoResult

ConvertImage ==
    /\ arg.fn = "ImageConverter.convert"
    /\ result = NoResult
    /\ result' = [fn |-> "ImageConverter.convert",
                  value |-> Image_convert_opened(arg.img, arg.output_format)]
    /\ UNCHANGED <<arg, pipeline_vars>>

SpecImage == InitImage /\ [][ConvertImage]_vars

ImageCall == result # NoResult /\ result.fn = "ImageConverter.convert"

\* the alpha-0 pixels of the source's frame 0
TransparentPixels(img) ==
    {k \in 1..Len(img.frames[1].px) : AlphaOf(img, img.frames[1].px[k]) = 0}

CarriesTransparency(img) ==
    img.mode \in {"RGBA", "LA"} \/ (img.mode = "P" /\ img.transparency)

\* C21: converting to jpeg or bmp from an RGBA image, an LA image or a
\* palette image with declared transparency gives an opaque RGB image in
\* which every pixel whose source alpha was 0 is white.
C21_TransparentBecomesWhite ==
    (/\ ImageCall
     /\ Lower(arg.output_format) \in {jpg, jpeg, bmp}
     /\ CarriesTransparency(arg.img))
    => /\ result.value.ok
       /\ result.value.mode = "RGB"
       /\ \A k \in TransparentPixels(arg.img) :
              result.value.frames[1].px[k] = White

\* the image made of frame 0 of img alone
FirstFrameOnly(img) == [img EXCEPT !.frames = <<img.frames[1]>>]

\* C22: a multi-frame image converted to gif comes out with as many frames as
\* the source, in the source's order, each with its source frame's duration,
\* looping forever; converted to jpeg, png, webp or bmp it comes out as
\* frame 0 alone.
C22_FramesKeptForGifOnly ==
    (/\ ImageCall
     /\ Len(arg.img.frames) > 1
     /\ Lower(arg.output_format) \in Image_supported_formats)
    => /\ result.value.ok
       /\ IF Lower(arg.output_format) = gif
          THEN /\ Len(result.value.frames) = Len(arg.img.frames)
               /\ \A k \in 1..Len(arg.img.frames) :
                      /\ result.value.frames[k].px = Frame_p(arg.img, k)
                      /\ arg.img.frames[k].duration # <<>>
                            => result.value.frames[k].duration
                                  = arg.img.frames[k].duration[1]
               /\ result.value.loop = 0
          ELSE /\ Len(result.value.frames) = 1
               /\ result.value
                     = Image_convert_opened(FirstFrameOnly(arg.img), arg.output_format)

====
